---- MODULE Spec2Model ----
(***************************************************************************)
(* Model of parastell's SourceMesh (src/parastell/source_mesh.py): the     *)
(* structured source mesh over a (flux surface, poloidal angle, toroidal   *)
(* angle) grid, its vertex table, the vertex indexer, the decomposition of *)
(* wedges and hexahedra into tetrahedra and the validating grid setters.   *)
(*                                                                         *)
(* Numbers.  Vertex ids are 0-based as in the code; TLA+ sequences are     *)
(* 1-based, so the vertex with id i is coords[i + 1].  Angles handed to    *)
(* the coordinate map are exact fractions of a revolution, <<num, den>>    *)
(* standing for 2*pi*num/den.  A flux label is its numerator over          *)
(* num_s - 1.  Volumes are held as numerators over 6 and strengths as      *)
(* numerators over 1440 (exact arithmetic, no floating-point rounding).    *)
(* Grid angles of the setters are hundredths of a degree, their radian     *)
(* values are fixed point in units of 1e-4 rad.                            *)
(***************************************************************************)
EXTENDS Integers, Sequences, FiniteSets, TLC

\* ------------------------------------------------------------ bounds
MaxS == 4
MaxTheta == 4
MaxPhi == 3
MaxMeshCalls == 2
MaxVertexCalls == 1

\* ------------------------------------------------------------ state
VARIABLES
    vmec_obj,         \* self.vmec_obj: which coordinate map the object was given
    num_s,            \* self.num_s: number of flux samples (axis included)
    num_theta,        \* self.num_theta: number of poloidal samples (0 and 2*pi included)
    num_phi,          \* self.num_phi: number of toroidal samples
    toroidal_extent,  \* self._toroidal_extent, in quarter revolutions
    scale,            \* self.scale
    field,            \* reaction_rate(*plasma_conditions(s)) as a named profile
    verts_per_ring,   \* self.verts_per_ring (0: not assigned yet)
    verts_per_plane,  \* self.verts_per_plane (0: not assigned yet)
    coords,           \* self.coords: sequence of <<x, y, z>> (<<>>: not assigned yet)
    coords_s,         \* self.coords_s: sequence of flux labels
    verts,            \* self.verts: vertex handles returned by the mesh database
    mesh_set,         \* tetrahedra of self.mesh_set, each <<h0, h1, h2, h3>>
    strengths,        \* self.strengths
    volumes,          \* self.volumes
    alt_flag,         \* self.alt_flag (assigned by create_mesh before it is read)
    cells,            \* the cells decomposed by the last create_mesh, in order
    mesh_calls,       \* number of create_mesh calls made
    constructed,      \* whether __init__ returned an object
    cfs_grid,         \* self._cfs_grid
    poloidal_grid,    \* self._poloidal_grid
    toroidal_grid,    \* self._toroidal_grid
    map_calls,        \* calls of vmec2xyz made by the last create_vertices
    rate_calls,       \* calls of the density callables made by the last create_mesh
    exported,         \* whether export_mesh has written the mesh file
    exc               \* exception raised by the last operation, or "none"

vars == <<vmec_obj, num_s, num_theta, num_phi, toroidal_extent, scale, field,
          verts_per_ring, verts_per_plane, coords, coords_s, verts,
          mesh_set, strengths, volumes, alt_flag, cells, mesh_calls,
          constructed, cfs_grid, poloidal_grid, toroidal_grid,
          map_calls, rate_calls, exported, exc>>

meshVars == <<verts_per_ring, verts_per_plane, coords, coords_s, verts,
              mesh_set, strengths, volumes, alt_flag, cells, mesh_calls>>

sizeVars == <<vmec_obj, num_s, num_theta, num_phi, toroidal_extent, scale, field>>

gridVars == <<constructed, cfs_grid, poloidal_grid, toroidal_grid>>

callVars == <<map_calls, rate_calls, exported>>

\* 2 * np.pi, in quarter revolutions.
TwoPi == 4

\* The code's 0-based subscript list[i].
At(list, i) == list[i + 1]

\* A list comprehension or np.array(...): the list with its entries evaluated.
Array(list) == SubSeq(list, 1, Len(list))

\* ------------------------------------------------------------ external collaborators

\* A point of the boundary of the lattice diamond |x| + |y| = den, at the
\* fraction num/den of a revolution (counter-clockwise from the x axis).
Diamond(angle) ==
    LET den == angle[2]
        m == (4 * angle[1]) % (4 * den)
        side == m \div den
        r == m % den
    IN  CASE side = 0 -> <<den - r, r>>
          [] side = 1 -> <<-r, den - r>>
          [] side = 2 -> <<r - den, -r>>
          [] OTHER -> <<r, r - den>>

\* The coordinate maps a SourceMesh is given: a torus whose poloidal angle
\* runs counter-clockwise, and the same torus with the poloidal angle running
\* clockwise.
VmecObjs == {"torus", "clockwise"}

\* Coordinate maps that are affine in the grid indices: each maps the sample
\* (s, theta, phi) with indices (i, j, k) to the lattice point M.(i, j, k) + b.
\* They are not periodic.
LatticeObjs == {"unit", "stretched", "sheared", "turned", "mirrored", "skewed"}

\* The rows of M, and b, of a lattice map.
LatticeMatrix(obj) ==
    CASE obj = "unit" -> [M |-> << <<1, 0, 0>>, <<0, 1, 0>>, <<0, 0, 1>> >>, b |-> <<0, 0, 0>>]
      [] obj = "stretched" -> [M |-> << <<1, 0, 0>>, <<0, 2, 0>>, <<0, 0, 3>> >>, b |-> <<1, 0, 0>>]
      [] obj = "sheared" -> [M |-> << <<1, 1, 0>>, <<0, 1, 1>>, <<0, 0, 1>> >>, b |-> <<0, 0, 0>>]
      [] obj = "turned" -> [M |-> << <<0, 0, 1>>, <<1, 0, 0>>, <<0, 1, 0>> >>, b |-> <<0, 2, 0>>]
      [] obj = "mirrored" -> [M |-> << <<1, 0, 0>>, <<0, 1, 0>>, <<0, 0, -1>> >>, b |-> <<0, 0, 0>>]
      [] OTHER -> [M |-> << <<2, 1, 0>>, <<-1, 1, 1>>, <<0, 1, 3>> >>, b |-> <<-3, 2, 5>>]

\* vmec2xyz of a lattice map, theta and phi being given as fractions of a
\* revolution by create_vertices.
lattice2xyz(s, theta, phi) ==
    LET m == LatticeMatrix(vmec_obj).M
        b == LatticeMatrix(vmec_obj).b
        i == s
        j == theta[1]
        k == phi[1] \div toroidal_extent
    IN  <<m[1][1] * i + m[1][2] * j + m[1][3] * k + b[1],
          m[2][1] * i + m[2][2] * j + m[2][3] * k + b[2],
          m[3][1] * i + m[3][2] * j + m[3][3] * k + b[3]>>

\* vmec_obj.vmec2xyz(s, theta, phi): the external flux-to-Cartesian map: a
\* lattice map, or a torus of major radius 40 with diamond cross-sections,
\* periodic in both angles and independent of theta on the magnetic axis
\* (s = 0).
vmec2xyz(s, theta, phi) ==
    IF vmec_obj \in LatticeObjs THEN lattice2xyz(s, theta, phi)
    ELSE LET q == Diamond(theta)
             d == Diamond(phi)
             R == 40 + s * q[1]
             z == IF vmec_obj = "clockwise" THEN -(s * q[2]) ELSE s * q[2]
         IN  <<R * d[1], R * d[2], z>>

\* Whether vmec2xyz raises at (s, theta, phi): the raising map fails on the
\* outermost flux surface, on every plane but the first.
vmec2xyz_raises(s, theta, phi) ==
    vmec_obj = "raising" /\ s = num_s - 1 /\ phi[1] # 0

\* The profiles plasma_conditions and reaction_rate may be replaced with.
Fields == {"zero", "flat", "peaked"}

\* self.reaction_rate(*self.plasma_conditions(s)) for the flux label s.
source_density(s) ==
    CASE field = "zero" -> 0
      [] field = "flat" -> 1
      [] OTHER -> (num_s - 1) - s

\* Whether reaction_rate(*plasma_conditions(s)) raises: the raising profile
\* fails on the outermost flux surface.
source_density_raises(s) == field = "raising" /\ s = num_s - 1

\* The scale factors given as the keyword argument scale.
Scales == {2}

\* np.array(xyz) * self.scale
Scaled(xyz) == <<xyz[1] * scale, xyz[2] * scale, xyz[3] * scale>>

\* np.linspace(0, stop, num=num)[k] as the fraction <<k, num - 1>> of stop.
linspace(num) == [k \in 1..num |-> <<k - 1, num - 1>>]

\* array[:-1]
DropLast(seq) == SubSeq(seq, 1, Len(seq) - 1)

\* ------------------------------------------------------------ create_vertices

\* phi_list with the repeated plane at 2*pi kept for a full revolution.
phi_list_keeps_seam ==
    [k \in 1..num_phi |->
        <<toroidal_extent * linspace(num_phi)[k][1], TwoPi * linspace(num_phi)[k][2]>>]

\* phi_list of create_vertices: np.linspace(0, self._toroidal_extent, num_phi)
\* as fractions of a revolution, without the last entry for a full revolution.
phi_list ==
    LET all == [k \in 1..num_phi |->
                   <<toroidal_extent * linspace(num_phi)[k][1],
                     TwoPi * linspace(num_phi)[k][2]>>]
    IN  IF toroidal_extent = TwoPi THEN DropLast(all) ELSE all

\* s_list of create_vertices: np.linspace(0.0, 1.0, num_s)[1:], as numerators
\* over num_s - 1.
s_list == Tail([k \in 1..num_s |-> linspace(num_s)[k][1]])

\* theta_list of create_vertices: np.linspace(0, 2 * np.pi, num_theta)[:-1].
theta_list == DropLast(linspace(num_theta))

\* The assignment of one vertex at vert_idx, and vert_idx += 1, on the state
\* acc of a running create_vertices.  A vert_idx outside the arrays raises
\* IndexError.
PutVertex(acc, xyz, s) ==
    IF acc.exc # "none" THEN acc
    ELSE IF acc.vert_idx >= Len(acc.coords) THEN [acc EXCEPT !.exc = "IndexError"]
    ELSE [acc EXCEPT !.coords[acc.vert_idx + 1] = Scaled(xyz),
                     !.coords_s[acc.vert_idx + 1] = s,
                     !.vert_idx = @ + 1]

\* CallMap calling vmec2xyz a second time when the first call raised.
CallMap_retries(acc, s, theta, phi) ==
    IF acc.exc # "none" THEN acc
    ELSE IF vmec2xyz_raises(s, theta, phi)
    THEN [acc EXCEPT !.calls = @ + 2, !.exc = "VmecError"]
    ELSE [acc EXCEPT !.calls = @ + 1]

\* The call self.vmec_obj.vmec2xyz(s, theta, phi) of a running
\* create_vertices: its exception is not caught.
CallMap(acc, s, theta, phi) ==
    IF acc.exc # "none" THEN acc
    ELSE IF vmec2xyz_raises(s, theta, phi)
    THEN [acc EXCEPT !.calls = @ + 1, !.exc = "VmecError"]
    ELSE [acc EXCEPT !.calls = @ + 1]

RECURSIVE VertexThetaLoop(_, _, _, _)
\* for theta in theta_list (from its j-th entry on)
VertexThetaLoop(acc, phi, s, j) ==
    IF j > Len(theta_list) \/ acc.exc # "none" THEN acc
    ELSE VertexThetaLoop(PutVertex(CallMap(acc, s, theta_list[j], phi),
                                   vmec2xyz(s, theta_list[j], phi), s),
                         phi, s, j + 1)

RECURSIVE VertexSLoop(_, _, _)
\* for s in s_list (from its i-th entry on)
VertexSLoop(acc, phi, i) ==
    IF i > Len(s_list) \/ acc.exc # "none" THEN acc
    ELSE VertexSLoop(VertexThetaLoop(acc, phi, s_list[i], 1), phi, i + 1)

RECURSIVE VertexPhiLoop(_, _)
\* for phi in phi_list (from its k-th entry on)
VertexPhiLoop(acc, k) ==
    IF k > Len(phi_list) \/ acc.exc # "none" THEN acc
    ELSE VertexPhiLoop(
             VertexSLoop(PutVertex(CallMap(acc, 0, <<0, 1>>, phi_list[k]),
                                   vmec2xyz(0, <<0, 1>>, phi_list[k]), 0),
                         phi_list[k], 1),
             k + 1)

\* verts_per_ring counting the repeated sample at 2*pi.
RingSizeWithDuplicate == Len(theta_list) + 1

\* self.verts_per_ring = theta_list.shape[0]
RingSize == Len(theta_list)

\* self.verts_per_plane = s_list.shape[0] * self.verts_per_ring + 1
PlaneSize == Len(s_list) * RingSize + 1

\* num_verts = phi_list.shape[0] * self.verts_per_plane
num_verts == Len(phi_list) * PlaneSize

\* The last handle the mesh database has given out.
LastHandle == IF verts = <<>> THEN 0 ELSE verts[Len(verts)]

\* SourceMesh.create_vertices.  self.verts is assigned last, from the filled
\* coordinate array.
create_vertices ==
    /\ constructed
    /\ LastHandle < MaxVertexCalls * num_verts
    /\ LET zeros == [coords |-> [i \in 1..num_verts |-> <<0, 0, 0>>],
                     coords_s |-> [i \in 1..num_verts |-> 0],
                     vert_idx |-> 0, calls |-> 0, exc |-> "none"]
       IN  \E acc \in {VertexPhiLoop(zeros, 1)} :
           /\ coords' = acc.coords
           /\ coords_s' = acc.coords_s
           /\ map_calls' = acc.calls
           /\ exc' = acc.exc
           /\ verts' = IF acc.exc = "none"
                       THEN LET last == LastHandle
                            IN  [i \in 1..Len(acc.coords) |-> last + i]
                       ELSE verts
    /\ verts_per_ring' = RingSize
    /\ verts_per_plane' = PlaneSize
    /\ UNCHANGED <<mesh_set, strengths, volumes, alt_flag, cells, mesh_calls>>
    /\ UNCHANGED <<sizeVars, gridVars, rate_calls, exported>>

\* ------------------------------------------------------------ quadrature

\* bary_coords with the second point moved off the line through the first
\* vertex and the centroid.
bary_coords_skewed ==
    << <<3, 3, 3, 3>>, <<6, 3, 2, 1>>, <<2, 6, 2, 2>>, <<2, 2, 6, 2>>, <<2, 2, 2, 6>> >>

\* The rows of bary_coords, each multiplied by 12.
bary_coords ==
    << <<3, 3, 3, 3>>, <<6, 2, 2, 2>>, <<2, 6, 2, 2>>, <<2, 2, 6, 2>>, <<2, 2, 2, 6>> >>

\* int_w with the centroid weighted +0.8.
int_w_positive_centroid == <<16, 9, 9, 9, 9>>

\* int_w, multiplied by 20.
int_w == <<-16, 9, 9, 9, 9>>

\* np.dot of two vectors of length 4.
Dot4(a, b) == a[1] * b[1] + a[2] * b[2] + a[3] * b[3] + a[4] * b[4]

\* np.subtract of two points.
Sub3(a, b) == <<a[1] - b[1], a[2] - b[2], a[3] - b[3]>>

\* The transpose of a 3 x 3 matrix given by its rows.
Transpose3(m) == Array([i \in 1..3 |-> <<m[1][i], m[2][i], m[3][i]>>])

\* np.linalg.det of a 3 x 3 matrix given by its rows.
Det3(m) ==
      m[1][1] * (m[2][2] * m[3][3] - m[2][3] * m[3][2])
    - m[1][2] * (m[2][1] * m[3][3] - m[2][3] * m[3][1])
    + m[1][3] * (m[2][1] * m[3][2] - m[2][2] * m[3][1])

\* np.abs
Abs(x) == IF x < 0 THEN -x ELSE x

\* _source_strength adding the quadrature sum to the volume instead of
\* multiplying by it.
_source_strength_adds(tet_ids) ==
    LET tet_coords == Array([i \in 1..4 |-> coords[tet_ids[i] + 1]])
        vertex_strengths == Array([i \in 1..4 |-> source_density(coords_s[tet_ids[i] + 1])])
        ss_int_pts == Array([p \in 1..5 |-> Dot4(bary_coords[p], vertex_strengths)])
        edge_vectors == Transpose3(Array([i \in 1..3 |-> Sub3(tet_coords[i], tet_coords[4])]))
        tet_vol == -Det3(edge_vectors)
        weighted == int_w[1] * ss_int_pts[1] + int_w[2] * ss_int_pts[2]
                    + int_w[3] * ss_int_pts[3] + int_w[4] * ss_int_pts[4]
                    + int_w[5] * ss_int_pts[5]
    IN  <<Abs(tet_vol) + weighted, tet_vol>>

\* _source_strength returning the absolute value of the volume.
_source_strength_abs_volume(tet_ids) ==
    LET tet_coords == Array([i \in 1..4 |-> coords[tet_ids[i] + 1]])
        vertex_strengths == Array([i \in 1..4 |-> source_density(coords_s[tet_ids[i] + 1])])
        ss_int_pts == Array([p \in 1..5 |-> Dot4(bary_coords[p], vertex_strengths)])
        edge_vectors == Transpose3(Array([i \in 1..3 |-> Sub3(tet_coords[i], tet_coords[4])]))
        tet_vol == -Det3(edge_vectors)
        weighted == int_w[1] * ss_int_pts[1] + int_w[2] * ss_int_pts[2]
                    + int_w[3] * ss_int_pts[3] + int_w[4] * ss_int_pts[4]
                    + int_w[5] * ss_int_pts[5]
    IN  <<Abs(tet_vol) * weighted, Abs(tet_vol)>>

\* SourceMesh._source_strength: <<ss, tet_vol>>, ss as a numerator over 1440
\* and tet_vol as a numerator over 6.
_source_strength(tet_ids) ==
    LET tet_coords == Array([i \in 1..4 |-> coords[tet_ids[i] + 1]])
        vertex_strengths == Array([i \in 1..4 |-> source_density(coords_s[tet_ids[i] + 1])])
        ss_int_pts == Array([p \in 1..5 |-> Dot4(bary_coords[p], vertex_strengths)])
        edge_vectors == Transpose3(Array([i \in 1..3 |-> Sub3(tet_coords[i], tet_coords[4])]))
        tet_vol == -Det3(edge_vectors)
        weighted == int_w[1] * ss_int_pts[1] + int_w[2] * ss_int_pts[2]
                    + int_w[3] * ss_int_pts[3] + int_w[4] * ss_int_pts[4]
                    + int_w[5] * ss_int_pts[5]
    IN  <<Abs(tet_vol) * weighted, tet_vol>>

\* ------------------------------------------------------------ tetrahedra

\* The positions in tet_ids of the vertices whose density evaluation raises.
RaisingVertices(tet_ids) ==
    {i \in 1..4 : source_density_raises(coords_s[tet_ids[i] + 1])}

\* The least member of a non-empty set of numbers.
First(S) == CHOOSE i \in S : \A j \in S : i <= j

\* _create_tet inserting the strength at the front of self.strengths.
_create_tet_prepends(acc, tet_ids) ==
    IF acc.exc # "none" THEN acc
    ELSE IF \E i \in 1..4 : tet_ids[i] \notin 0..(Len(verts) - 1)
    THEN [acc EXCEPT !.exc = "IndexError"]
    ELSE LET tet_verts == [i \in 1..4 |-> verts[tet_ids[i] + 1]]
             raising == RaisingVertices(tet_ids)
             r == _source_strength(tet_ids)
         IN  IF raising # {}
             THEN [acc EXCEPT !.mesh_set = Append(@, tet_verts),
                              !.calls = @ + First(raising),
                              !.exc = "RateError"]
             ELSE [acc EXCEPT !.mesh_set = Append(@, tet_verts),
                              !.strengths = <<r[1]>> \o @,
                              !.volumes = Append(@, r[2]),
                              !.calls = @ + 4]

\* SourceMesh._create_tet, on the state acc of a running create_mesh.  A
\* vertex id outside self.verts raises IndexError.  The tetrahedron is
\* created and added to the mesh set before _source_strength evaluates the
\* density vertex by vertex; an exception of the density is not caught.
_create_tet(acc, tet_ids) ==
    IF acc.exc # "none" THEN acc
    ELSE IF \E i \in 1..4 : tet_ids[i] \notin 0..(Len(verts) - 1)
    THEN [acc EXCEPT !.exc = "IndexError"]
    ELSE LET tet_verts == [i \in 1..4 |-> verts[tet_ids[i] + 1]]
             raising == RaisingVertices(tet_ids)
             r == _source_strength(tet_ids)
         IN  IF raising # {}
             THEN [acc EXCEPT !.mesh_set = Append(@, tet_verts),
                              !.calls = @ + First(raising),
                              !.exc = "RateError"]
             ELSE [acc EXCEPT !.mesh_set = Append(@, tet_verts),
                              !.strengths = Append(@, r[1]),
                              !.volumes = Append(@, r[2]),
                              !.calls = @ + 4]

RECURSIVE CreateTets(_, _)
\* for vertex_ids in canon_ids: self._create_tet(vertex_ids)
CreateTets(acc, canon_ids) ==
    IF canon_ids = <<>> THEN acc
    ELSE CreateTets(_create_tet(acc, Head(canon_ids)), Tail(canon_ids))

\* _get_vertex_id with the flux offset counting num_theta vertices per ring,
\* the repeated sample at 2*pi included.
_get_vertex_id_wide_ring(vertex_idx) ==
    LET ma_offset == IF toroidal_extent = TwoPi /\ vertex_idx[3] = num_phi - 1
                     THEN 0
                     ELSE vertex_idx[3] * verts_per_plane
        theta_offset == IF vertex_idx[2] = num_theta THEN 1 ELSE vertex_idx[2]
    IN  ma_offset + vertex_idx[1] * num_theta + theta_offset

\* _get_vertex_id wrapping the repeated poloidal sample onto offset 0.
_get_vertex_id_wraps_to_zero(vertex_idx) ==
    LET ma_offset == IF toroidal_extent = TwoPi /\ vertex_idx[3] = num_phi - 1
                     THEN 0
                     ELSE vertex_idx[3] * verts_per_plane
        theta_offset == IF vertex_idx[2] = num_theta THEN 0 ELSE vertex_idx[2]
    IN  ma_offset + vertex_idx[1] * verts_per_ring + theta_offset

\* _get_vertex_id without the toroidal wrap-around of the final plane.
_get_vertex_id_no_seam(vertex_idx) ==
    LET theta_offset == IF vertex_idx[2] = num_theta THEN 1 ELSE vertex_idx[2]
    IN  vertex_idx[3] * verts_per_plane + vertex_idx[1] * verts_per_ring + theta_offset

\* _get_vertex_id without the poloidal wrap-around of the repeated sample.
_get_vertex_id_no_theta_wrap(vertex_idx) ==
    LET ma_offset == IF toroidal_extent = TwoPi /\ vertex_idx[3] = num_phi - 1
                     THEN 0
                     ELSE vertex_idx[3] * verts_per_plane
    IN  ma_offset + vertex_idx[1] * verts_per_ring + vertex_idx[2]

\* SourceMesh._get_vertex_id
_get_vertex_id(vertex_idx) ==
    LET s_idx == vertex_idx[1]
        theta_idx == vertex_idx[2]
        phi_idx == vertex_idx[3]
        ma_offset == IF toroidal_extent = TwoPi /\ phi_idx = num_phi - 1
                     THEN 0
                     ELSE phi_idx * verts_per_plane
        s_offset == s_idx * verts_per_ring
        theta_offset == IF theta_idx = num_theta THEN 1 ELSE theta_idx
    IN  ma_offset + s_offset + theta_offset

\* hex_vertex_stencil of _create_tets_from_hex
hex_vertex_stencil ==
    << <<0, 0, 0>>, <<1, 0, 0>>, <<1, 1, 0>>, <<0, 1, 0>>,
       <<0, 0, 1>>, <<1, 0, 1>>, <<1, 1, 1>>, <<0, 1, 1>> >>

\* wedge_vertex_stencil taking the near axis corner at the poloidal position
\* of the wedge.
wedge_vertex_stencil_off_axis(theta_idx) ==
    << <<0, theta_idx, 0>>, <<0, theta_idx, 0>>, <<0, theta_idx + 1, 0>>,
       <<0, 0, 1>>, <<0, theta_idx, 1>>, <<0, theta_idx + 1, 1>> >>

\* wedge_vertex_stencil of _create_tets_from_wedge
wedge_vertex_stencil(theta_idx) ==
    << <<0, 0, 0>>, <<0, theta_idx, 0>>, <<0, theta_idx + 1, 0>>,
       <<0, 0, 1>>, <<0, theta_idx, 1>>, <<0, theta_idx + 1, 1>> >>

\* np.array(point) + stencil
AddStencil(point, stencil) ==
    [i \in 1..Len(stencil) |->
        <<point[1] + stencil[i][1], point[2] + stencil[i][2], point[3] + stencil[i][3]>>]

\* hex_canon_ids with the first tetrahedron of the first table listed in the
\* opposite rotational sense.
hex_canon_ids_inverts_one(flag, idx_list) ==
    IF flag
    THEN << <<At(idx_list, 0), At(idx_list, 1), At(idx_list, 2), At(idx_list, 5)>>,
            <<At(idx_list, 0), At(idx_list, 3), At(idx_list, 2), At(idx_list, 7)>>,
            <<At(idx_list, 0), At(idx_list, 7), At(idx_list, 5), At(idx_list, 4)>>,
            <<At(idx_list, 7), At(idx_list, 2), At(idx_list, 5), At(idx_list, 6)>>,
            <<At(idx_list, 0), At(idx_list, 2), At(idx_list, 5), At(idx_list, 7)>> >>
    ELSE << <<At(idx_list, 0), At(idx_list, 3), At(idx_list, 1), At(idx_list, 4)>>,
            <<At(idx_list, 1), At(idx_list, 3), At(idx_list, 2), At(idx_list, 6)>>,
            <<At(idx_list, 1), At(idx_list, 4), At(idx_list, 6), At(idx_list, 5)>>,
            <<At(idx_list, 3), At(idx_list, 6), At(idx_list, 4), At(idx_list, 7)>>,
            <<At(idx_list, 1), At(idx_list, 3), At(idx_list, 6), At(idx_list, 4)>> >>

\* hex_canon_ids with a corner tetrahedron listed again in place of the
\* central tetrahedron of the second table.
hex_canon_ids_repeats_corner(flag, idx_list) ==
    IF flag
    THEN << <<At(idx_list, 0), At(idx_list, 2), At(idx_list, 1), At(idx_list, 5)>>,
            <<At(idx_list, 0), At(idx_list, 3), At(idx_list, 2), At(idx_list, 7)>>,
            <<At(idx_list, 0), At(idx_list, 7), At(idx_list, 5), At(idx_list, 4)>>,
            <<At(idx_list, 7), At(idx_list, 2), At(idx_list, 5), At(idx_list, 6)>>,
            <<At(idx_list, 0), At(idx_list, 2), At(idx_list, 5), At(idx_list, 7)>> >>
    ELSE << <<At(idx_list, 0), At(idx_list, 3), At(idx_list, 1), At(idx_list, 4)>>,
            <<At(idx_list, 1), At(idx_list, 3), At(idx_list, 2), At(idx_list, 6)>>,
            <<At(idx_list, 1), At(idx_list, 4), At(idx_list, 6), At(idx_list, 5)>>,
            <<At(idx_list, 3), At(idx_list, 6), At(idx_list, 4), At(idx_list, 7)>>,
            <<At(idx_list, 0), At(idx_list, 3), At(idx_list, 1), At(idx_list, 4)>> >>

\* hex_canon_ids of _create_tets_from_hex
hex_canon_ids(flag, idx_list) ==
    IF flag
    THEN << <<At(idx_list, 0), At(idx_list, 2), At(idx_list, 1), At(idx_list, 5)>>,
            <<At(idx_list, 0), At(idx_list, 3), At(idx_list, 2), At(idx_list, 7)>>,
            <<At(idx_list, 0), At(idx_list, 7), At(idx_list, 5), At(idx_list, 4)>>,
            <<At(idx_list, 7), At(idx_list, 2), At(idx_list, 5), At(idx_list, 6)>>,
            <<At(idx_list, 0), At(idx_list, 2), At(idx_list, 5), At(idx_list, 7)>> >>
    ELSE << <<At(idx_list, 0), At(idx_list, 3), At(idx_list, 1), At(idx_list, 4)>>,
            <<At(idx_list, 1), At(idx_list, 3), At(idx_list, 2), At(idx_list, 6)>>,
            <<At(idx_list, 1), At(idx_list, 4), At(idx_list, 6), At(idx_list, 5)>>,
            <<At(idx_list, 3), At(idx_list, 6), At(idx_list, 4), At(idx_list, 7)>>,
            <<At(idx_list, 1), At(idx_list, 3), At(idx_list, 6), At(idx_list, 4)>> >>

\* wedge_canon_ids splitting a wedge into four tetrahedra, as the class
\* docstring announces, instead of three.
wedge_canon_ids_four(flag, idx_list) ==
    << <<At(idx_list, 0), At(idx_list, 2), At(idx_list, 1), At(idx_list, 3)>>,
       <<At(idx_list, 1), At(idx_list, 3), At(idx_list, 5), At(idx_list, 4)>>,
       <<At(idx_list, 1), At(idx_list, 3), At(idx_list, 2), At(idx_list, 5)>>,
       <<At(idx_list, 3), At(idx_list, 2), At(idx_list, 4), At(idx_list, 5)>> >>

\* wedge_canon_ids of _create_tets_from_wedge
wedge_canon_ids(flag, idx_list) ==
    IF flag
    THEN << <<At(idx_list, 0), At(idx_list, 2), At(idx_list, 1), At(idx_list, 3)>>,
            <<At(idx_list, 1), At(idx_list, 3), At(idx_list, 5), At(idx_list, 4)>>,
            <<At(idx_list, 1), At(idx_list, 3), At(idx_list, 2), At(idx_list, 5)>> >>
    ELSE << <<At(idx_list, 0), At(idx_list, 2), At(idx_list, 1), At(idx_list, 3)>>,
            <<At(idx_list, 3), At(idx_list, 2), At(idx_list, 4), At(idx_list, 5)>>,
            <<At(idx_list, 3), At(idx_list, 2), At(idx_list, 1), At(idx_list, 4)>> >>

\* The record kept of one decomposed cell: the arguments of the call, the
\* alt_flag it read, and its locals *_idx_data and idx_list.
Cell(kind, s_idx, theta_idx, phi_idx, flag, idx_data, idx_list) ==
    [kind |-> kind, s_idx |-> s_idx, theta_idx |-> theta_idx, phi_idx |-> phi_idx,
     alt_flag |-> flag, idx_data |-> idx_data, idx_list |-> idx_list]

\* SourceMesh._create_tets_from_hex
_create_tets_from_hex(acc, s_idx, theta_idx, phi_idx) ==
    LET hex_idx_data == AddStencil(<<s_idx, theta_idx, phi_idx>>, hex_vertex_stencil)
        idx_list == Array([i \in 1..8 |-> _get_vertex_id(hex_idx_data[i])])
        seen == [acc EXCEPT !.cells = Append(@, Cell("hex", s_idx, theta_idx, phi_idx,
                                                     acc.alt_flag, hex_idx_data, idx_list))]
    IN  CreateTets(seen, hex_canon_ids(acc.alt_flag, idx_list))

\* SourceMesh._create_tets_from_wedge
_create_tets_from_wedge(acc, theta_idx, phi_idx) ==
    LET wedge_idx_data == AddStencil(<<0, 0, phi_idx>>, wedge_vertex_stencil(theta_idx))
        idx_list == Array([i \in 1..6 |-> _get_vertex_id(wedge_idx_data[i])])
        seen == [acc EXCEPT !.cells = Append(@, Cell("wedge", 0, theta_idx, phi_idx,
                                                     acc.alt_flag, wedge_idx_data, idx_list))]
    IN  CreateTets(seen, wedge_canon_ids(acc.alt_flag, idx_list))

\* ------------------------------------------------------------ create_mesh

\* The flag left as it is after a cell.
Toggle_keeps_flag(acc) == acc

\* self.alt_flag = not self.alt_flag, unless the cell raised.
Toggle(acc) == IF acc.exc # "none" THEN acc ELSE [acc EXCEPT !.alt_flag = ~@]

RECURSIVE MeshWedgeLoop(_, _, _)
\* for theta_idx in range(1, self.num_theta), wedges
MeshWedgeLoop(acc, theta_idx, phi_idx) ==
    IF theta_idx >= num_theta \/ acc.exc # "none" THEN acc
    ELSE MeshWedgeLoop(Toggle(_create_tets_from_wedge(acc, theta_idx, phi_idx)),
                       theta_idx + 1, phi_idx)

RECURSIVE MeshHexThetaLoop(_, _, _, _)
\* for theta_idx in range(1, self.num_theta), hexahedra
MeshHexThetaLoop(acc, s_idx, theta_idx, phi_idx) ==
    IF theta_idx >= num_theta \/ acc.exc # "none" THEN acc
    ELSE MeshHexThetaLoop(Toggle(_create_tets_from_hex(acc, s_idx, theta_idx, phi_idx)),
                          s_idx, theta_idx + 1, phi_idx)

RECURSIVE MeshHexSLoop(_, _, _)
\* for s_idx in range(self.num_s - 2)
MeshHexSLoop(acc, s_idx, phi_idx) ==
    IF s_idx >= num_s - 2 \/ acc.exc # "none" THEN acc
    ELSE MeshHexSLoop(MeshHexThetaLoop(acc, s_idx, 1, phi_idx), s_idx + 1, phi_idx)

\* One slab fewer when the seam plane is not stored.
num_slabs_between_stored_planes ==
    IF toroidal_extent = TwoPi THEN num_phi - 2 ELSE num_phi - 1

\* The number of toroidal slabs create_mesh walks: range(self.num_phi - 1).
num_slabs == num_phi - 1

RECURSIVE MeshPhiLoop(_, _)
\* for phi_idx in range(self.num_phi - 1)
MeshPhiLoop(acc, phi_idx) ==
    IF phi_idx >= num_slabs \/ acc.exc # "none" THEN acc
    ELSE MeshPhiLoop(
             MeshHexSLoop(MeshWedgeLoop([acc EXCEPT !.alt_flag = TRUE], 1, phi_idx),
                          0, phi_idx),
             phi_idx + 1)

\* SourceMesh.create_mesh.  Without vertices, add_entity(self.mesh_set,
\* self.verts) raises AttributeError after the new mesh set was created.
create_mesh ==
    /\ constructed
    /\ mesh_calls < MaxMeshCalls
    /\ mesh_calls' = mesh_calls + 1
    /\ IF verts = <<>>
       THEN /\ mesh_set' = <<>>
            /\ exc' = "AttributeError"
            /\ rate_calls' = 0
            /\ UNCHANGED <<strengths, volumes, alt_flag, cells>>
       ELSE LET start == [mesh_set |-> <<>>, strengths |-> strengths,
                          volumes |-> volumes, alt_flag |-> alt_flag,
                          cells |-> <<>>, calls |-> 0, exc |-> "none"]
            IN  \E acc \in {MeshPhiLoop(start, 0)} :
                /\ mesh_set' = acc.mesh_set
                /\ strengths' = acc.strengths
                /\ volumes' = acc.volumes
                /\ alt_flag' = acc.alt_flag
                /\ cells' = acc.cells
                /\ rate_calls' = acc.calls
                /\ exc' = acc.exc
    /\ UNCHANGED <<verts_per_ring, verts_per_plane, coords, coords_s, verts>>
    /\ UNCHANGED <<sizeVars, gridVars, map_calls, exported>>

\* ------------------------------------------------------------ specification of the mesh engine

\* A constructed SourceMesh (strengths and volumes empty, no vertex, no mesh
\* set) with the grid sizes, extent, scale and profiles its methods read.
Init ==
    /\ vmec_obj \in VmecObjs
    /\ num_s \in 2..MaxS
    /\ num_theta \in 2..MaxTheta
    /\ num_phi \in 2..MaxPhi
    /\ toroidal_extent \in {1, TwoPi}
    /\ scale \in Scales
    /\ field \in Fields
    /\ verts_per_ring = 0
    /\ verts_per_plane = 0
    /\ coords = <<>>
    /\ coords_s = <<>>
    /\ verts = <<>>
    /\ mesh_set = <<>>
    /\ strengths = <<>>
    /\ volumes = <<>>
    /\ alt_flag = TRUE
    /\ cells = <<>>
    /\ mesh_calls = 0
    /\ constructed = TRUE
    /\ cfs_grid = <<>>
    /\ poloidal_grid = <<>>
    /\ toroidal_grid = <<>>
    /\ map_calls = 0
    /\ rate_calls = 0
    /\ exported = FALSE
    /\ exc = "none"

Next == create_vertices \/ create_mesh

Spec == Init /\ [][Next]_vars

\* ------------------------------------------------------------ specification of the mesh engine over lattice maps

\* A constructed SourceMesh over a lattice map and a partial revolution: the
\* cells that do not wrap around poloidally are affine images of the unit
\* cell of the index space.
InitLattice ==
    /\ vmec_obj \in LatticeObjs
    /\ num_s \in 2..MaxS
    /\ num_theta \in 2..MaxTheta
    /\ num_phi \in 2..MaxPhi
    /\ toroidal_extent = 1
    /\ scale \in Scales
    /\ field = "flat"
    /\ verts_per_ring = 0
    /\ verts_per_plane = 0
    /\ coords = <<>>
    /\ coords_s = <<>>
    /\ verts = <<>>
    /\ mesh_set = <<>>
    /\ strengths = <<>>
    /\ volumes = <<>>
    /\ alt_flag = TRUE
    /\ cells = <<>>
    /\ mesh_calls = 0
    /\ constructed = TRUE
    /\ cfs_grid = <<>>
    /\ poloidal_grid = <<>>
    /\ toroidal_grid = <<>>
    /\ map_calls = 0
    /\ rate_calls = 0
    /\ exported = FALSE
    /\ exc = "none"

SpecLattice == InitLattice /\ [][Next]_vars

\* ------------------------------------------------------------ grid setters

\* 360.0, the number the angle setters compare a radian span with, in units
\* of 1e-4 rad.
Rad360 == 3600000

\* 1, the last flux label the setter asks for, in tenths.
One == 10

\* np.deg2rad of an angle in hundredths of a degree, in units of 1e-4 rad
\* (pi / 180 = 0.01745329..., rounded down).
deg2rad(c) == c + (c * 745) \div 1000 + (c * 329) \div 1000000

\* np.deg2rad(array)
deg2rad_array(array) == [i \in 1..Len(array) |-> deg2rad(array[i])]

\* array[-1]
Last(array) == array[Len(array)]

\* The cfs_grid check with "and" in place of "or".
cfs_grid_invalid_both_ends(stored) == stored[1] # 0 /\ Last(stored) # One

\* The check of the cfs_grid setter on the value it has stored.
cfs_grid_invalid(stored) == stored[1] # 0 \/ Last(stored) # One

\* The check of the poloidal_grid setter on the value it has stored.
poloidal_grid_invalid(stored) == Last(stored) - stored[1] # Rad360

\* The check of the toroidal_grid setter on the value it has stored.
toroidal_grid_invalid(stored) == Last(stored) - stored[1] > Rad360

\* Flux-label sequences (tenths) handed to the constructor and the setter.
CfsGrids ==
    {<<0, 5, One>>, <<0, 2, One>>, <<0, One>>, <<2, 5, One>>, <<0, 5, 9>>, <<One, 0>>}

\* Poloidal-angle sequences (hundredths of a degree): 0..360 and 10..370
\* degrees, 0..180 degrees, and the span whose radian value is 360.0.
PoloidalGrids == {<<0, 18000, 36000>>, <<1000, 37000>>, <<0, 9000, 18000>>,
                  <<0, 1000000, 2062649>>}

\* Toroidal-angle sequences (hundredths of a degree): 0..90, 0..360 and 0..400
\* degrees, and a span above 360 rad.
ToroidalGrids == {<<0, 4500, 9000>>, <<0, 18000, 36000>>, <<0, 40000>>, <<0, 2070000>>}

\* The cfs_grid setter: the value is stored, then checked.
set_cfs_grid(array) ==
    /\ constructed
    /\ cfs_grid' = array
    /\ exc' = IF cfs_grid_invalid(array) THEN "ValueError" ELSE "none"
    /\ UNCHANGED <<constructed, poloidal_grid, toroidal_grid, sizeVars, meshVars, callVars>>

\* The poloidal_grid setter: the converted value is stored, then checked.
set_poloidal_grid(array) ==
    /\ constructed
    /\ poloidal_grid' = deg2rad_array(array)
    /\ exc' = IF poloidal_grid_invalid(deg2rad_array(array)) THEN "ValueError" ELSE "none"
    /\ UNCHANGED <<constructed, cfs_grid, toroidal_grid, sizeVars, meshVars, callVars>>

\* The toroidal_grid setter: the converted value is stored, then checked.
set_toroidal_grid(array) ==
    /\ constructed
    /\ toroidal_grid' = deg2rad_array(array)
    /\ exc' = IF toroidal_grid_invalid(deg2rad_array(array)) THEN "ValueError" ELSE "none"
    /\ UNCHANGED <<constructed, cfs_grid, poloidal_grid, sizeVars, meshVars, callVars>>

\* SourceMesh.__init__: the three setters in order, the first ValueError
\* ending the construction; then strengths and volumes are emptied.
__init__(cfs, poloidal, toroidal) ==
    /\ ~constructed
    /\ exc = "none"
    /\ cfs_grid' = cfs
    /\ IF cfs_grid_invalid(cfs)
       THEN /\ exc' = "ValueError"
            /\ UNCHANGED <<constructed, poloidal_grid, toroidal_grid>>
       ELSE /\ poloidal_grid' = deg2rad_array(poloidal)
            /\ IF poloidal_grid_invalid(deg2rad_array(poloidal))
               THEN /\ exc' = "ValueError"
                    /\ UNCHANGED <<constructed, toroidal_grid>>
               ELSE /\ toroidal_grid' = deg2rad_array(toroidal)
                    /\ IF toroidal_grid_invalid(deg2rad_array(toroidal))
                       THEN /\ exc' = "ValueError"
                            /\ UNCHANGED constructed
                       ELSE /\ exc' = "none"
                            /\ constructed' = TRUE
    /\ UNCHANGED <<sizeVars, meshVars, callVars>>

\* SourceMesh.export_mesh: the mesh database writes the H5M file.
export_mesh ==
    /\ constructed
    /\ exported' = TRUE
    /\ exc' = "none"
    /\ UNCHANGED <<sizeVars, meshVars, gridVars, map_calls, rate_calls>>

\* ------------------------------------------------------------ specification of construction and the setters

\* Before SourceMesh(...) is called: no object, no attribute assigned.
InitGrid ==
    /\ vmec_obj \in {"torus", "raising"}
    /\ num_s = 3
    /\ num_theta = 3
    /\ num_phi = 2
    /\ toroidal_extent = 1
    /\ scale \in Scales
    /\ field \in {"peaked", "raising"}
    /\ verts_per_ring = 0
    /\ verts_per_plane = 0
    /\ coords = <<>>
    /\ coords_s = <<>>
    /\ verts = <<>>
    /\ mesh_set = <<>>
    /\ strengths = <<>>
    /\ volumes = <<>>
    /\ alt_flag = TRUE
    /\ cells = <<>>
    /\ mesh_calls = 0
    /\ constructed = FALSE
    /\ cfs_grid = <<>>
    /\ poloidal_grid = <<>>
    /\ toroidal_grid = <<>>
    /\ map_calls = 0
    /\ rate_calls = 0
    /\ exported = FALSE
    /\ exc = "none"

NextGrid ==
    \/ \E cfs \in CfsGrids, poloidal \in PoloidalGrids, toroidal \in ToroidalGrids :
           __init__(cfs, poloidal, toroidal)
    \/ \E array \in CfsGrids : set_cfs_grid(array)
    \/ \E array \in PoloidalGrids : set_poloidal_grid(array)
    \/ \E array \in ToroidalGrids : set_toroidal_grid(array)
    \/ create_vertices
    \/ create_mesh
    \/ export_mesh

SpecGrid == InitGrid /\ [][NextGrid]_vars

\* ------------------------------------------------------------ properties

\* Whether the toroidal extent is a full revolution.
FullRevolution == toroidal_extent = TwoPi

\* toroidal_planes: the toroidal samples that get vertices.
StoredPlanes == IF FullRevolution THEN num_phi - 1 ELSE num_phi

\* create_vertices has run.
HasVertices == verts # <<>>

\* create_vertices, then exactly one create_mesh, have run.
MeshedOnce == mesh_calls = 1 /\ cells # <<>>

\* C1: after create_vertices the vertex table (coords, coords_s, verts) holds
\* exactly planes * ((S-1)*(P-1) + 1) entries, planes being T for a partial
\* revolution and T - 1 for a full one.
C1_VertexCount ==
    HasVertices =>
        LET expected == StoredPlanes * ((num_s - 1) * (num_theta - 1) + 1)
        IN  /\ Len(coords) = expected
            /\ Len(coords_s) = expected
            /\ Len(verts) = expected

\* A full-revolution grid of 3 x 4 x 3 samples has its 2 * 7 vertices.
C1_Witness ==
    /\ HasVertices /\ FullRevolution
    /\ num_s = 3 /\ num_theta = 4 /\ num_phi = 3
    /\ Len(verts) = 14

LogicalPoints ==
    {<<0, 0, k>> : k \in 0..(StoredPlanes - 1)}
    \cup {<<s, th, k>> : s \in 0..(num_s - 2), th \in 1..(num_theta - 1),
                         k \in 0..(StoredPlanes - 1)}

\* C4: _get_vertex_id maps the distinct logical grid points to pairwise
\* distinct ids, and every id 0..num_verts-1 of the vertex table is the id
\* of one of them.
C4_IndexBijection ==
    HasVertices =>
        /\ \A a, b \in LogicalPoints :
               a # b => _get_vertex_id(a) # _get_vertex_id(b)
        /\ {_get_vertex_id(a) : a \in LogicalPoints} = 0..(Len(verts) - 1)

\* Vertices exist on a full-revolution grid of 4 x 4 x 3 samples.
C4_Witness ==
    /\ HasVertices /\ FullRevolution
    /\ num_s = 4 /\ num_theta = 4 /\ num_phi = 3
    /\ Cardinality(LogicalPoints) = 20

\* C5: _get_vertex_id returns toroidal_offset + flux_offset + poloidal_offset
\* with ring = P - 1 and plane = (S-1)*ring + 1: toroidal_offset is
\* toroidal_idx * plane, or 0 on the final plane of a full revolution;
\* flux_offset is flux_idx * ring; poloidal_offset is poloidal_idx, or 1 when
\* poloidal_idx = P.
C5_IndexFormula ==
    HasVertices =>
        LET ring == num_theta - 1
            plane == (num_s - 1) * ring + 1
        IN  \A flux_idx \in 0..(num_s - 1), poloidal_idx \in 0..num_theta,
               toroidal_idx \in 0..(num_phi - 1) :
                _get_vertex_id(<<flux_idx, poloidal_idx, toroidal_idx>>)
                = (IF FullRevolution /\ toroidal_idx = num_phi - 1
                   THEN 0 ELSE toroidal_idx * plane)
                  + flux_idx * ring
                  + (IF poloidal_idx = num_theta THEN 1 ELSE poloidal_idx)

\* On a grid of 3 x 4 x 3 samples, the duplicate poloidal sample of the
\* second ring of the second plane has id 7 + 3 + 1.
C5_Witness ==
    /\ HasVertices /\ ~FullRevolution
    /\ num_s = 3 /\ num_theta = 4 /\ num_phi = 3
    /\ _get_vertex_id(<<1, 4, 1>>) = 11

\* The k-th toroidal sample (0-based) of the grid, the repeated one included.
PhiSample(k) == <<toroidal_extent * k, TwoPi * (num_phi - 1)>>

\* The position and flux label of the logical corner <<s, th, k>> of a cell:
\* the axis of plane k for <<0, 0, k>>, else the (s+1)-th flux sample at the
\* th-th poloidal sample of plane k.
CornerPoint(corner) ==
    IF corner[2] = 0
    THEN [xyz |-> Scaled(vmec2xyz(0, <<0, 1>>, PhiSample(corner[3]))), s |-> 0]
    ELSE [xyz |-> Scaled(vmec2xyz(corner[1] + 1, <<corner[2] - 1, num_theta - 1>>,
                                  PhiSample(corner[3]))),
          s |-> corner[1] + 1]

\* C6: for every cell corner create_mesh looks up, the vertex stored at the id
\* _get_vertex_id returns has the position and the flux label of that logical
\* corner (positions being periodic in both angles).
C6_IndexMatchesCreationOrder ==
    \A n \in 1..Len(cells) :
        \A i \in 1..Len(cells[n].idx_list) :
            LET id == cells[n].idx_list[i]
                corner == CornerPoint(cells[n].idx_data[i])
            IN  /\ id \in 0..(Len(coords) - 1)
                /\ coords[id + 1] = corner.xyz
                /\ coords_s[id + 1] = corner.s

\* A mesh exists on a full-revolution grid with hexahedra, whose last cell
\* wraps both poloidally and toroidally.
C6_Witness ==
    /\ MeshedOnce /\ FullRevolution
    /\ num_s = 4 /\ num_theta = 4 /\ num_phi = 3
    /\ cells[Len(cells)].idx_data[7] = <<2, 4, 2>>

\* The ids a slab's cells got for their corners on the toroidal plane k.
IdsOnPlane(slab, k) ==
    UNION {{cells[n].idx_list[i] :
               i \in {j \in 1..Len(cells[n].idx_list) : cells[n].idx_data[j][3] = k}} :
           n \in {m \in 1..Len(cells) : cells[m].phi_idx = slab}}

\* C7: on a full-revolution grid no vertices are stored for the final toroidal
\* sample, and in the last toroidal slab every corner on the far plane
\* (toroidal index T - 1) of every wedge and hexahedron resolves to the id of
\* the corresponding vertex of plane 0, so the first and last planes
\* reference the same vertex set.
C7_SeamSharesVertices ==
    (FullRevolution /\ HasVertices) =>
        /\ Len(verts) = (num_phi - 1) * ((num_s - 1) * (num_theta - 1) + 1)
        /\ \A n \in 1..Len(cells) :
               \A i \in 1..Len(cells[n].idx_list) :
                   LET corner == cells[n].idx_data[i]
                   IN  corner[3] = num_phi - 1 =>
                           /\ cells[n].phi_idx = num_phi - 2
                           /\ cells[n].idx_list[i] < verts_per_plane
                           /\ cells[n].idx_list[i]
                              = _get_vertex_id(<<corner[1], corner[2], 0>>)
                           /\ coords[cells[n].idx_list[i] + 1]
                              = CornerPoint(<<corner[1], corner[2], 0>>).xyz
        /\ cells # <<>> => IdsOnPlane(num_phi - 2, num_phi - 1) = IdsOnPlane(0, 0)

\* A mesh on a full-revolution grid of 3 x 3 x 3 samples, whose last slab
\* has corners on the toroidal sample 2.
C7_Witness ==
    /\ MeshedOnce /\ FullRevolution
    /\ num_s = 3 /\ num_theta = 3 /\ num_phi = 3
    /\ IdsOnPlane(1, 2) = 0..4

\* The ids (0-based) of the stored vertices of plane k with flux label 0.
AxisIds(k) ==
    {id \in (k * verts_per_plane)..((k + 1) * verts_per_plane - 1) :
        coords_s[id + 1] = 0}

\* The wedges among the decomposed cells.
Wedges == {n \in 1..Len(cells) : cells[n].kind = "wedge"}

\* C8: exactly one vertex with flux label 0 is created per stored toroidal
\* plane, and all wedges of a slab reference that same axis vertex for their
\* near-plane axis corner and the axis vertex of the next plane for their
\* far-plane axis corner, whatever their poloidal position.
C8_AxisVertexShared ==
    HasVertices =>
        /\ \A k \in 0..(StoredPlanes - 1) : Cardinality(AxisIds(k)) = 1
        /\ \A n \in Wedges :
               /\ At(cells[n].idx_list, 0) \in AxisIds(cells[n].phi_idx)
               /\ At(cells[n].idx_list, 3)
                  \in AxisIds((cells[n].phi_idx + 1) % StoredPlanes)
        /\ \A n, m \in Wedges :
               cells[n].phi_idx = cells[m].phi_idx =>
                   /\ At(cells[n].idx_list, 0) = At(cells[m].idx_list, 0)
                   /\ At(cells[n].idx_list, 3) = At(cells[m].idx_list, 3)

\* A mesh whose second slab has three wedges around the axis vertices 10 and 20.
C8_Witness ==
    /\ MeshedOnce /\ ~FullRevolution
    /\ num_s = 4 /\ num_theta = 4 /\ num_phi = 3
    /\ \E n, m \in Wedges :
           /\ cells[n].phi_idx = 1 /\ cells[m].phi_idx = 1
           /\ cells[n].theta_idx = 1 /\ cells[m].theta_idx = 3
           /\ At(cells[m].idx_list, 0) = 10 /\ At(cells[m].idx_list, 3) = 20

\* Sanity of the modelled coordinate map: distinct stored vertices have
\* distinct positions.
PositionsDistinct ==
    \A i, j \in 1..Len(coords) : i # j => coords[i] # coords[j]

\* A flux-label sequence whose first value is not 0 or whose last is not 1.
BadFlux(array) == array[1] # 0 \/ array[Len(array)] # One

\* C9: assigning or constructing with a flux-label sequence whose first value
\* is not 0 or whose last value is not 1 raises ValueError, and creates no
\* vertex and no tetrahedron: the assignment leaves the mesh as it was, the
\* construction returns no object.
C9_BadFluxRaises ==
    [][\A array \in CfsGrids :
           BadFlux(array) =>
               /\ set_cfs_grid(array) =>
                      /\ exc' = "ValueError"
                      /\ UNCHANGED <<coords, coords_s, verts, mesh_set, strengths, volumes>>
               /\ \A poloidal \in PoloidalGrids, toroidal \in ToroidalGrids :
                      __init__(array, poloidal, toroidal) =>
                          /\ exc' = "ValueError"
                          /\ ~constructed'
                          /\ coords' = <<>> /\ verts' = <<>> /\ mesh_set' = <<>>
                          /\ volumes' = <<>>]_vars

\* An object with vertices was assigned a flux sequence starting at 0.2, and
\* the assignment raised.
C9_Witness ==
    /\ constructed /\ HasVertices
    /\ cfs_grid = <<2, 5, One>>
    /\ exc = "ValueError"

\* 360 degrees, in hundredths of a degree.
Deg360 == 36000

\* The span of an angle sequence given in hundredths of a degree.
DegSpan(array) == array[Len(array)] - array[1]

\* C10 as stated: a poloidal-angle sequence in degrees is rejected with
\* ValueError if and only if its span differs from 360 degrees; a sequence
\* spanning 0 to 360 degrees is accepted and the construction succeeds.
C10_PoloidalSpanAsStated ==
    [][\A array \in PoloidalGrids :
           /\ set_poloidal_grid(array) =>
                  (exc' = "ValueError" <=> DegSpan(array) # Deg360)
           /\ \A cfs \in CfsGrids, toroidal \in ToroidalGrids :
                  (/\ ~BadFlux(cfs)
                   /\ DegSpan(toroidal) <= Deg360
                   /\ __init__(cfs, array, toroidal)) =>
                      (constructed' <=> DegSpan(array) = Deg360)]_vars

\* C11 as stated: a toroidal-angle sequence in degrees is rejected with
\* ValueError if and only if its span exceeds 360 degrees, by the assignment
\* and by the construction (which then returns no object and has built no
\* mesh).
C11_ToroidalSpanAsStated ==
    [][\A array \in ToroidalGrids :
           /\ set_toroidal_grid(array) =>
                  (exc' = "ValueError" <=> DegSpan(array) > Deg360)
           /\ \A cfs \in CfsGrids, poloidal \in PoloidalGrids :
                  (/\ ~BadFlux(cfs)
                   /\ ~poloidal_grid_invalid(deg2rad_array(poloidal))
                   /\ __init__(cfs, poloidal, array)) =>
                      /\ constructed' <=> DegSpan(array) <= Deg360
                      /\ mesh_set' = <<>> /\ verts' = <<>>]_vars

\* The entry of strengths and of volumes that belongs to the k-th
\* tetrahedron of the current mesh set (both lists grow over create_mesh calls).
EntryOf(k) == Len(volumes) - Len(mesh_set) + k

\* The vertex id behind a handle of the mesh database.
IdOfHandle(h) == (h - 1) % Len(coords)

\* The positions p0..p3 and the densities f0..f3 of the k-th tetrahedron.
TetPoints(k) == [i \in 1..4 |-> coords[IdOfHandle(mesh_set[k][i]) + 1]]
TetDensities(k) == [i \in 1..4 |-> source_density(coords_s[IdOfHandle(mesh_set[k][i]) + 1])]

\* The scalar triple product a . (b x c) = det(a, b, c).
Triple(a, b, c) ==
      a[1] * (b[2] * c[3] - b[3] * c[2])
    + a[2] * (b[3] * c[1] - b[1] * c[3])
    + a[3] * (b[1] * c[2] - b[2] * c[1])

\* det(p0 - p3, p1 - p3, p2 - p3): six times the volume, up to sign.
TetDet(p) == Triple(Sub3(p[1], p[4]), Sub3(p[2], p[4]), Sub3(p[3], p[4]))

\* C12: with a source density that is 0 at every vertex, every recorded
\* strength is exactly 0.
C12_ZeroFieldZeroStrength ==
    field = "zero" => \A k \in 1..Len(strengths) : strengths[k] = 0

\* A mesh of cells with non-zero volume was built over the zero field.
C12_Witness ==
    /\ MeshedOnce /\ field = "zero"
    /\ Len(strengths) = Len(mesh_set)
    /\ \E k \in 1..Len(volumes) : volumes[k] # 0

\* The five quadrature points of C13: weight (in twentieths) and barycentric
\* coordinates (in twelfths): the centroid weighted -0.8, and four points
\* with 1/2 on one vertex and 1/6 on the others weighted 0.45.
QuadraturePoints ==
    <<[w |-> -16, b |-> <<3, 3, 3, 3>>]>>
    \o [i \in 1..4 |-> [w |-> 9, b |-> [j \in 1..4 |-> IF j = i THEN 6 ELSE 2]]]

\* The strength C13 states for the k-th tetrahedron, as a numerator over 1440.
StatedStrength(k) ==
    LET f == TetDensities(k)
        q == QuadraturePoints
        term == [n \in 1..5 |-> q[n].w * Dot4(q[n].b, f)]
    IN  Abs(TetDet(TetPoints(k))) * (term[1] + term[2] + term[3] + term[4] + term[5])

\* C13: the strength recorded for a tetrahedron with positions p0..p3 and
\* densities f0..f3 is |det(p0-p3, p1-p3, p2-p3)|/6 times the sum over the five
\* quadrature points of weight times interpolated density.
C13_StrengthFormula ==
    \A k \in 1..Len(mesh_set) : strengths[EntryOf(k)] = StatedStrength(k)

\* A mesh over the peaked field holds an inverted tetrahedron with a positive
\* strength.
C13_Witness ==
    /\ MeshedOnce /\ field = "peaked"
    /\ \E k \in 1..Len(mesh_set) :
           volumes[EntryOf(k)] < 0 /\ strengths[EntryOf(k)] > 0

C15_VolumesPositiveAsStated ==
    vmec_obj = "torus" => \A k \in 1..Len(volumes) : volumes[k] > 0

\* The cell the k-th tetrahedron belongs to when, slab after slab, the P-1
\* wedges (3 tetrahedra each, by increasing poloidal index) come first and the
\* (S-2)*(P-1) hexahedra (5 each, by increasing flux index, then increasing
\* poloidal index) follow.
StatedCellOf(k) ==
    LET W == num_theta - 1
        H == (num_s - 2) * (num_theta - 1)
        slab == (k - 1) \div (3 * W + 5 * H)
        r == (k - 1) % (3 * W + 5 * H)
        h == (r - 3 * W) \div 5
    IN  IF r < 3 * W
        THEN [kind |-> "wedge", s_idx |-> 0, theta_idx |-> (r \div 3) + 1,
              phi_idx |-> slab, n |-> slab * (W + H) + (r \div 3) + 1]
        ELSE [kind |-> "hex", s_idx |-> h \div W, theta_idx |-> (h % W) + 1,
              phi_idx |-> slab, n |-> slab * (W + H) + W + h + 1]

\* C16: after create_vertices and one create_mesh, strengths and volumes are
\* parallel to the tetrahedron list: the k-th entry of each is the value of
\* the k-th tetrahedron created, and the k-th tetrahedron lies in the cell the
\* stated order gives (wedges first, then hexahedra by flux index, then by
\* poloidal index, slab after slab).
C16_ParallelArrays ==
    MeshedOnce =>
        /\ Len(strengths) = Len(mesh_set)
        /\ Len(volumes) = Len(mesh_set)
        /\ \A k \in 1..Len(mesh_set) :
               LET c == StatedCellOf(k)
               IN  /\ strengths[k] = StatedStrength(k)
                   /\ volumes[k] = -TetDet(TetPoints(k))
                   /\ c.n \in 1..Len(cells)
                   /\ cells[c.n].kind = c.kind
                   /\ cells[c.n].s_idx = c.s_idx
                   /\ cells[c.n].theta_idx = c.theta_idx
                   /\ cells[c.n].phi_idx = c.phi_idx
                   /\ {IdOfHandle(mesh_set[k][i]) : i \in 1..4}
                          \subseteq {cells[c.n].idx_list[i] : i \in 1..Len(cells[c.n].idx_list)}

\* A mesh of two slabs of 3 wedges and 6 hexahedra each, with strengths that
\* differ from one tetrahedron to the next.
C16_Witness ==
    /\ MeshedOnce /\ field = "peaked"
    /\ num_s = 4 /\ num_theta = 4 /\ num_phi = 3
    /\ Len(strengths) = 78
    /\ strengths[1] # strengths[78]

\* C20: in create_mesh the first cell of every toroidal slab is decomposed
\* with the flag True, and two cells decomposed one after the other in the
\* same slab have different flags.
C20_FlagAlternates ==
    \A n \in 1..Len(cells) :
        /\ (n = 1 \/ cells[n - 1].phi_idx # cells[n].phi_idx) => cells[n].alt_flag
        /\ (n > 1 /\ cells[n - 1].phi_idx = cells[n].phi_idx) =>
               cells[n].alt_flag # cells[n - 1].alt_flag

\* A mesh of two slabs of nine cells each: the last cell of the first slab
\* and the first cell of the second slab both have the flag True.
C20_Witness ==
    /\ MeshedOnce
    /\ num_s = 4 /\ num_theta = 4 /\ num_phi = 3
    /\ Len(cells) = 18
    /\ cells[9].phi_idx = 0 /\ cells[9].alt_flag
    /\ cells[10].phi_idx = 1 /\ cells[10].alt_flag
    /\ ~cells[11].alt_flag

\* The stored radian value of an angle given as a fraction of a revolution.
RadOfFraction(angle) == deg2rad((Deg360 * angle[1]) \div angle[2])

\* C17 as stated: create_vertices evaluates the coordinate map at the
\* supplied values: ring i has the i-th supplied flux label beyond the axis,
\* poloidal position j the j-th supplied poloidal angle, plane k the k-th
\* supplied toroidal angle, over as many rings, positions and planes as were
\* supplied.
C17_SuppliedValuesAsStated ==
    [][(create_vertices /\ exc' = "none") =>
          LET rings == Len(cfs_grid) - 1
              ring == Len(poloidal_grid) - 1
              plane == rings * ring + 1
          IN  /\ Len(s_list) = rings
              /\ Len(theta_list) = ring
              /\ Len(phi_list) \in {Len(toroidal_grid) - 1, Len(toroidal_grid)}
              /\ Len(coords') = Len(phi_list) * plane
              /\ \A k \in 1..Len(phi_list) :
                     /\ RadOfFraction(phi_list[k]) = toroidal_grid[k]
                     /\ \A i \in 1..rings, j \in 1..ring :
                            /\ RadOfFraction(theta_list[j]) = poloidal_grid[j]
                            /\ coords_s'[(k - 1) * plane + 1 + (i - 1) * ring + j] * One
                                   = cfs_grid[i + 1] * (num_s - 1)]_vars

\* C19 as stated: after a successful construction cfs_grid holds the supplied
\* flux labels without the leading 0, poloidal_grid the supplied angles in
\* radians without the closing sample, toroidal_grid all supplied angles in
\* radians.
C19_StoredGridsAsStated ==
    [][\A cfs \in CfsGrids, poloidal \in PoloidalGrids, toroidal \in ToroidalGrids :
           (__init__(cfs, poloidal, toroidal) /\ constructed') =>
               /\ cfs_grid' = Tail(cfs)
               /\ poloidal_grid' = DropLast(deg2rad_array(poloidal))
               /\ toroidal_grid' = deg2rad_array(toroidal)]_vars

\* The arguments of the n-th call of vmec2xyz that create_vertices makes when
\* nothing raises: plane after plane, the axis first, then ring after ring,
\* poloidal position after poloidal position.
MapCallArgs(n) ==
    LET ring == Len(theta_list)
        plane == Len(s_list) * ring + 1
        k == ((n - 1) \div plane) + 1
        r == (n - 1) % plane
    IN  IF r = 0
        THEN <<0, <<0, 1>>, phi_list[k]>>
        ELSE <<s_list[((r - 1) \div ring) + 1], theta_list[((r - 1) % ring) + 1], phi_list[k]>>

\* The calls of vmec2xyz that raise.
MapCallsRaising ==
    {n \in 1..num_verts :
        vmec2xyz_raises(MapCallArgs(n)[1], MapCallArgs(n)[2], MapCallArgs(n)[3])}

\* The positions in the k-th tetrahedron of seq of the vertices whose density
\* evaluation raises.
RaisingIn(seq, k) ==
    {i \in 1..4 : source_density_raises(coords_s[IdOfHandle(seq[k][i]) + 1])}

\* C18: an exception of the coordinate map during create_vertices, or of the
\* density callables during create_mesh, reaches the caller; the callable is
\* not called again after it raised, no vertex or tetrahedron is created after
\* it raised, and no file is exported.
C18_ExceptionPropagates ==
    [][/\ (UNCHANGED <<gridVars, mesh_calls, exported>> /\ create_vertices) =>
              IF MapCallsRaising # {}
              THEN /\ exc' = "VmecError"
                   /\ map_calls' = First(MapCallsRaising)
                   /\ \A n \in First(MapCallsRaising)..num_verts : coords'[n] = <<0, 0, 0>>
                   /\ UNCHANGED <<verts, mesh_set, strengths, volumes, exported>>
              ELSE /\ exc' = "none"
                   /\ map_calls' = num_verts
        /\ (mesh_calls' # mesh_calls /\ verts # <<>> /\ create_mesh) =>
              LET made == Len(mesh_set')
                  done == Len(strengths') - Len(strengths)
              IN  /\ exc' = "RateError" <=> field = "raising"
                  /\ Len(volumes') - Len(volumes) = done
                  /\ \A k \in 1..done : RaisingIn(mesh_set', k) = {}
                  /\ IF exc' = "RateError"
                     THEN /\ made = done + 1
                          /\ RaisingIn(mesh_set', made) # {}
                          /\ rate_calls' = 4 * done + First(RaisingIn(mesh_set', made))
                     ELSE /\ made = done
                          /\ rate_calls' = 4 * done
                  /\ UNCHANGED <<verts, coords, exported>>]_vars

\* create_mesh has raised the exception of the density callable on the
\* seventh tetrahedron, after six were recorded, and nothing was exported.
C18_Witness ==
    /\ exc = "RateError"
    /\ Len(mesh_set) = 7 /\ Len(strengths) = 6
    /\ rate_calls \in 25..28
    /\ ~exported

\* create_vertices has raised the exception of the coordinate map on its
\* ninth call.
VmecErrorReached == exc = "VmecError" /\ map_calls = 9 /\ verts = <<>>

\* The hexahedra among the decomposed cells.
Hexes == {n \in 1..Len(cells) : cells[n].kind = "hex"}

\* The ordering tables in corner numbers: the tetrahedra of a cell whose
\* idx_list holds its own corner numbers 0..7 (hexahedron) or 0..5 (wedge).
HexTable(flag) == hex_canon_ids(flag, <<0, 1, 2, 3, 4, 5, 6, 7>>)
WedgeTable(flag) == wedge_canon_ids(flag, <<0, 1, 2, 3, 4, 5>>)

\* The quadrilateral faces of a hexahedron, by corner numbers of
\* hex_vertex_stencil: constant poloidal index (low, high) and constant flux
\* index (inner, outer); and the outer quadrilateral face of a wedge, by
\* corner numbers of wedge_vertex_stencil.
ThetaLowFace == {0, 1, 4, 5}
ThetaHighFace == {2, 3, 6, 7}
InnerFace == {0, 3, 4, 7}
OuterFace == {1, 2, 5, 6}
WedgeOuterFace == {1, 2, 4, 5}

\* The triangles a table puts on a face: the corner sets of the faces of its
\* tetrahedra that lie in the face.
FaceTriangles(table, face) ==
    {tri \in {{table[t][i] : i \in 1..4} \cap face : t \in 1..Len(table)} :
        Cardinality(tri) = 3}

\* The corners of the diagonal a table puts on a quadrilateral face: the
\* corners common to its triangles on the face.
DiagonalCorners(table, face) ==
    {c \in face : \A tri \in FaceTriangles(table, face) : c \in tri}

\* The diagonal the decomposition of the n-th cell puts on a face, as the set
\* of the vertex ids at its two ends.
Diagonal(n, face) ==
    LET table == IF cells[n].kind = "hex" THEN HexTable(cells[n].alt_flag)
                 ELSE WedgeTable(cells[n].alt_flag)
    IN  {At(cells[n].idx_list, c) : c \in DiagonalCorners(table, face)}

\* The poloidal position after theta_idx around the ring, the last position
\* being followed by the first.
NextAround(theta_idx) == IF theta_idx = num_theta - 1 THEN 1 ELSE theta_idx + 1

\* C21 as stated: two hexahedra of the same flux ring and slab at poloidal
\* positions that follow each other around the ring, the last and the first
\* included, put the same diagonal on the constant-poloidal-angle face they
\* share.
C21_PoloidalDiagonalsAsStated ==
    \A n, m \in Hexes :
        (/\ n # m
         /\ cells[n].s_idx = cells[m].s_idx
         /\ cells[n].phi_idx = cells[m].phi_idx
         /\ cells[m].theta_idx = NextAround(cells[n].theta_idx)) =>
            Diagonal(n, ThetaHighFace) = Diagonal(m, ThetaLowFace)

\* C22 as stated: two hexahedra at the same poloidal position and slab with
\* flux indices s and s + 1 put the same diagonal on the flux-surface face
\* they share.
C22_RadialDiagonalsAsStated ==
    \A n, m \in Hexes :
        (/\ cells[m].s_idx = cells[n].s_idx + 1
         /\ cells[n].theta_idx = cells[m].theta_idx
         /\ cells[n].phi_idx = cells[m].phi_idx) =>
            Diagonal(n, OuterFace) = Diagonal(m, InnerFace)

\* C23 as stated: a wedge and the innermost hexahedron at the same poloidal
\* position and slab put the same diagonal on the face they share.
C23_WedgeDiagonalAsStated ==
    \A n \in Wedges, m \in Hexes :
        (/\ cells[m].s_idx = 0
         /\ cells[n].theta_idx = cells[m].theta_idx
         /\ cells[n].phi_idx = cells[m].phi_idx) =>
            Diagonal(n, WedgeOuterFace) = Diagonal(m, InnerFace)

\* Every table puts exactly two triangles, hence one diagonal, on each
\* quadrilateral face.
TablesSplitFaces ==
    \A flag \in BOOLEAN :
        /\ \A face \in {ThetaLowFace, ThetaHighFace, InnerFace, OuterFace} :
               /\ Cardinality(FaceTriangles(HexTable(flag), face)) = 2
               /\ Cardinality(DiagonalCorners(HexTable(flag), face)) = 2
        /\ Cardinality(FaceTriangles(WedgeTable(flag), WedgeOuterFace)) = 2
        /\ Cardinality(DiagonalCorners(WedgeTable(flag), WedgeOuterFace)) = 2

\* The diagonals agree where the alternation fits the number of cells per
\* ring: around a ring of an even number of cells, between rings of an odd
\* number of cells, and between wedge and hexahedron over an even number.
DiagonalsAgreeByParity ==
    /\ (num_theta - 1) % 2 = 0 => C21_PoloidalDiagonalsAsStated
    /\ (num_theta - 1) % 2 = 1 => C22_RadialDiagonalsAsStated
    /\ (num_theta - 1) % 2 = 0 => C23_WedgeDiagonalAsStated

\* The tetrahedra of the n-th cell, as the vertex ids its table takes from
\* its idx_list.
CellTets(n) ==
    IF cells[n].kind = "hex"
    THEN hex_canon_ids(cells[n].alt_flag, cells[n].idx_list)
    ELSE wedge_canon_ids(cells[n].alt_flag, cells[n].idx_list)

\* C24: every vertex id create_mesh places in a tetrahedron lies in
\* 0..num_verts-1, so no lookup of a vertex fails and every tetrahedron of the
\* mesh set is made of vertices that create_vertices stored.
C24_TetIdsStored ==
    HasVertices =>
        /\ exc # "IndexError"
        /\ \A n \in 1..Len(cells) :
               \A t \in 1..Len(CellTets(n)), i \in 1..4 :
                   CellTets(n)[t][i] \in 0..(num_verts - 1)
        /\ \A k \in 1..Len(mesh_set), i \in 1..4 : mesh_set[k][i] \in 1..LastHandle

\* A full-revolution mesh of 4 x 4 x 3 samples, whose last cell uses the last
\* stored vertex (id 19) and, across the seam, vertices of plane 0.
C24_Witness ==
    /\ MeshedOnce /\ FullRevolution
    /\ num_s = 4 /\ num_theta = 4 /\ num_phi = 3
    /\ \E t \in 1..5, i, j \in 1..4 :
           /\ CellTets(Len(cells))[t][i] = num_verts - 1
           /\ CellTets(Len(cells))[t][j] < verts_per_plane

\* C25 as stated: every tetrahedron of the mesh set references four pairwise
\* distinct vertices, on every grid with at least two samples per direction.
C25_TetVerticesDistinctAsStated ==
    \A k \in 1..Len(mesh_set) : Cardinality({mesh_set[k][i] : i \in 1..4}) = 4

\* Tetrahedra repeat a vertex only on the smallest grids: a ring of a single
\* vertex, or a full revolution with a single stored plane.
TetVerticesDistinctBeyondSmallest ==
    (num_theta > 2 /\ StoredPlanes > 1) => C25_TetVerticesDistinctAsStated

\* C26: the strength recorded for a tetrahedron is its unsigned volume times
\* the average (f0+f1+f2+f3)/4 of its vertex densities (as numerators over
\* 1440: 60 |det| (f0+f1+f2+f3)); over a constant density 1 it is the
\* unsigned volume, and over non-negative densities it is not negative.
C26_VertexAverage ==
    \A k \in 1..Len(mesh_set) :
        LET f == TetDensities(k)
            unsigned == Abs(TetDet(TetPoints(k)))
        IN  /\ strengths[EntryOf(k)] = 60 * unsigned * (f[1] + f[2] + f[3] + f[4])
            /\ field = "flat" => strengths[EntryOf(k)] = 240 * unsigned
            /\ strengths[EntryOf(k)] >= 0

\* A mesh over the peaked field holds a tetrahedron of non-zero volume whose
\* four vertex densities are not all equal.
C26_Witness ==
    /\ MeshedOnce /\ field = "peaked"
    /\ \E k \in 1..Len(mesh_set) :
           /\ volumes[EntryOf(k)] # 0
           /\ TetDensities(k)[1] # TetDensities(k)[2]
           /\ TetDensities(k)[2] # TetDensities(k)[4]
           /\ strengths[EntryOf(k)] > 0

\* The cells whose corners are the images of a unit cell of the index space
\* under a lattice map: those that do not wrap around poloidally.
UnitCells ==
    {n \in 1..Len(cells) : vmec_obj \in LatticeObjs /\ cells[n].theta_idx < num_theta - 1}

\* The number of tetrahedra created before those of the n-th cell of a
\* complete mesh: 3 per wedge and 5 per hexahedron, each slab holding its
\* P - 1 wedges before its (S-2)*(P-1) hexahedra.
TetsBefore(n) ==
    LET W == num_theta - 1
        H == (num_s - 2) * (num_theta - 1)
        slab == (n - 1) \div (W + H)
        r == (n - 1) % (W + H)
    IN  slab * (3 * W + 5 * H) + (IF r < W THEN 3 * r ELSE 3 * W + 5 * (r - W))

\* The places in the mesh set of the tetrahedra of the n-th cell.
TetsOf(n) ==
    (TetsBefore(n) + 1)..(TetsBefore(n) + (IF cells[n].kind = "hex" THEN 5 ELSE 3))

\* The position of the c-th corner (0-based) of the n-th cell.
CornerXyz(n, c) == coords[At(cells[n].idx_list, c) + 1]

\* Six times the volume of the n-th cell from three edges at its corner 0: a
\* parallelepiped for a hexahedron, half of one (a triangular prism) for a
\* wedge.
CellVolume(n) ==
    IF cells[n].kind = "hex"
    THEN 6 * Abs(Triple(Sub3(CornerXyz(n, 1), CornerXyz(n, 0)),
                        Sub3(CornerXyz(n, 3), CornerXyz(n, 0)),
                        Sub3(CornerXyz(n, 4), CornerXyz(n, 0))))
    ELSE 3 * Abs(Triple(Sub3(CornerXyz(n, 1), CornerXyz(n, 0)),
                        Sub3(CornerXyz(n, 2), CornerXyz(n, 0)),
                        Sub3(CornerXyz(n, 3), CornerXyz(n, 0))))

\* The determinant of the linear part of the lattice map.
LatticeDet == Det3(LatticeMatrix(vmec_obj).M)

\* C27: over a lattice map, det(p0-p3, p1-p3, p2-p3) is non-zero and has the
\* same sign for every tetrahedron of every unit cell, wedge or hexahedron,
\* decomposed with either table: the sign of the determinant of the map; the
\* recorded signed volumes of these cells are never mixed in sign.
C27_SameOrientation ==
    \A n \in UnitCells :
        \A k \in TetsOf(n) :
            /\ {IdOfHandle(mesh_set[k][i]) : i \in 1..4}
                   \subseteq {cells[n].idx_list[i] : i \in 1..Len(cells[n].idx_list)}
            /\ TetDet(TetPoints(k)) * LatticeDet > 0
            /\ volumes[EntryOf(k)] * LatticeDet < 0

\* A mesh over the skewed lattice map with unit wedges and unit hexahedra
\* decomposed with both tables.
C27_Witness ==
    /\ MeshedOnce /\ vmec_obj = "skewed" /\ num_theta = 4 /\ num_s = 4
    /\ \A kind \in {"wedge", "hex"}, flag \in BOOLEAN :
           \E n \in UnitCells : cells[n].kind = kind /\ cells[n].alt_flag = flag

\* The sum of the unsigned volumes recorded for the tetrahedra in places
\* from..to of the mesh set.
RECURSIVE SumUnsigned(_, _)
SumUnsigned(from, to) ==
    IF from > to THEN 0
    ELSE Abs(volumes[EntryOf(from)]) + SumUnsigned(from + 1, to)

\* C28: over a lattice map, the unsigned volumes of the 5 tetrahedra of a
\* unit hexahedron sum to the volume of the parallelepiped, and those of the
\* 3 tetrahedra of a unit wedge to the volume of the triangular prism, with
\* either table.
C28_TablesPartitionVolume ==
    \A n \in UnitCells :
        /\ CellVolume(n) > 0
        /\ SumUnsigned(TetsBefore(n) + 1,
                       TetsBefore(n) + (IF cells[n].kind = "hex" THEN 5 ELSE 3))
               = CellVolume(n)

\* A mesh over the stretched lattice map whose unit hexahedra, of volume
\* 1 x 2 x 3 times the cube of the scale, are decomposed with both tables.
C28_Witness ==
    /\ MeshedOnce /\ vmec_obj = "stretched" /\ num_theta = 4
    /\ \A flag \in BOOLEAN :
           \E n \in UnitCells :
               /\ cells[n].kind = "hex" /\ cells[n].alt_flag = flag
               /\ CellVolume(n) = 36 * scale * scale * scale
    /\ \E n \in UnitCells : cells[n].kind = "wedge" /\ ~cells[n].alt_flag

\* The recorded volumes of one mesh are never mixed in sign over the toroidal
\* maps: none is negative over the counter-clockwise torus, none positive over
\* the clockwise one.
VolumesNotMixed ==
    /\ vmec_obj = "torus" => \A k \in 1..Len(volumes) : volumes[k] >= 0
    /\ vmec_obj = "clockwise" => \A k \in 1..Len(volumes) : volumes[k] <= 0

\* C29 as stated: after create_vertices and any number k >= 1 of create_mesh
\* calls, strengths and volumes are as long as the current mesh set.
C29_ArraysMatchMeshAsStated ==
    (HasVertices /\ mesh_calls >= 1 /\ cells # <<>>) =>
        /\ Len(strengths) = Len(mesh_set)
        /\ Len(volumes) = Len(mesh_set)

\* What holds instead: the arrays keep the entries of every create_mesh call
\* made on the vertices, the current mesh set only the tetrahedra of the last.
ArraysAccumulate ==
    (HasVertices /\ cells # <<>> /\ exc = "none") =>
        /\ Len(strengths) = Len(volumes)
        /\ Len(strengths) % Len(mesh_set) = 0
        /\ Len(strengths) <= mesh_calls * Len(mesh_set)

\* C30 as stated: an assignment to cfs_grid, poloidal_grid or toroidal_grid
\* that raises ValueError leaves the stored grid as it was, and the grids
\* stored in an existing object pass the checks of their setters: the flux
\* grid starts at 0 and ends at 1, the angle grids have the spans asked for.
C30_RejectedGridNotStoredAsStated ==
    [][/\ \A array \in CfsGrids :
              (set_cfs_grid(array) /\ exc' = "ValueError") => cfs_grid' = cfs_grid
       /\ \A array \in PoloidalGrids :
              (set_poloidal_grid(array) /\ exc' = "ValueError") =>
                  poloidal_grid' = poloidal_grid
       /\ \A array \in ToroidalGrids :
              (set_toroidal_grid(array) /\ exc' = "ValueError") =>
                  toroidal_grid' = toroidal_grid
       /\ constructed' =>
              /\ ~cfs_grid_invalid(cfs_grid')
              /\ ~poloidal_grid_invalid(poloidal_grid')
              /\ ~toroidal_grid_invalid(toroidal_grid')]_vars

\* What holds instead: a setter stores the value it is given, converted to
\* radians for the angles, whether or not it then raises.
SetterStoresBeforeCheck ==
    [][/\ \A array \in CfsGrids : set_cfs_grid(array) => cfs_grid' = array
       /\ \A array \in PoloidalGrids :
              set_poloidal_grid(array) => poloidal_grid' = deg2rad_array(array)
       /\ \A array \in ToroidalGrids :
              set_toroidal_grid(array) => toroidal_grid' = deg2rad_array(array)]_vars

====
